---- MODULE Spec2Model ----
(* Model of text_analyzer.py: TextProcessor, WordCounter, FileWordsFinder,  *)
(* InMemoryWordsFinder and main.                                            *)
(* A string is a sequence of one-character strings; a Counter and a dict    *)
(* are sequences of <<key, value>> pairs in insertion order.                *)
EXTENDS Integers, Sequences, FiniteSets, TLC

VARIABLES
    text_in,     \* the text handed to _process_text / InMemoryWordsFinder
    words,       \* the list returned by the last _process_text call
    call,        \* the last call made on the public API and its arguments
    found,       \* the dict returned by the last count_word_occurrences / find
    filtered,    \* the dict returned by the last filter_words
    table_out,   \* the dict returned by the last sort_results / count_all_words
    all_words,   \* WordCounter.all_words
    kind,        \* which finder class is under construction / in use
    file_names,  \* FileWordsFinder.file_names
    fs,          \* the file system: path -> outcome of open+read
    idx,         \* position of the loop of FileWordsFinder.get_all_words
    pc,          \* position of the finder's constructor
    errors,      \* what handle_error has logged
    args,        \* the parsed command line of main
    mpc,         \* position of main
    reported,    \* the usage error main has reported, if any
    events,      \* processing steps performed so far in this run
    saved        \* what save_results wrote to the output file

vars == << text_in, words, call, found, filtered, table_out, all_words, kind,
           file_names, fs, idx, pc, errors, args, mpc, reported, events, saved >>

-----------------------------------------------------------------------------
(* Bounds *)

MaxTextLen == 4
MaxWords == 2
MaxCount == 3
MaxFiles == 3

-----------------------------------------------------------------------------
(* Characters and strings *)

Chars == {"a", "b", "A", "1", ",", "-", " "}

Whitespace == {" "}

Letters == {"a", "b", "A"}

\* the members of string.punctuation that occur in Chars
Punctuation == {",", "-"}

\* string.punctuation.replace('-', '')
Deleted == Punctuation \ {"-"}

RECURSIVE Strings(_, _)
Strings(S, n) ==
    IF n = 0 THEN {<< >>}
    ELSE LET shorter == Strings(S, n - 1)
         IN  shorter \cup {Append(s, c) : s \in {t \in shorter : Len(t) = n - 1}, c \in S}

LowerChar(c) == IF c = "A" THEN "a" ELSE c

\* str.lower
Lower(s) == [i \in 1..Len(s) |-> LowerChar(s[i])]

\* str.translate(str.maketrans('', '', deleted))
RECURSIVE Translate(_, _)
Translate(s, deleted) ==
    IF s = << >> THEN << >>
    ELSE IF Head(s) \in deleted THEN Translate(Tail(s), deleted)
    ELSE << Head(s) >> \o Translate(Tail(s), deleted)

\* str.split() with no separator: split on runs of whitespace, no empty items
RECURSIVE SplitFrom(_, _)
SplitFrom(s, cur) ==
    IF s = << >> THEN (IF cur = << >> THEN << >> ELSE << cur >>)
    ELSE IF Head(s) \in Whitespace
         THEN (IF cur = << >> THEN << >> ELSE << cur >>) \o SplitFrom(Tail(s), << >>)
         ELSE SplitFrom(Tail(s), Append(cur, Head(s)))

Split(s) == SplitFrom(s, << >>)

\* str.startswith
StartsWith(w, p) == Len(p) <= Len(w) /\ SubSeq(w, 1, Len(p)) = p

\* TextProcessor._process_text
ProcessText(text) == Split(Translate(Lower(text), Deleted))

-----------------------------------------------------------------------------
(* dict and Counter, as sequences of <<key, value>> in insertion order *)

Keys(d) == {d[i][1] : i \in 1..Len(d)}

HasKey(d, k) == \E i \in 1..Len(d) : d[i][1] = k

IndexOf(d, k) == CHOOSE i \in 1..Len(d) : d[i][1] = k

\* Counter.__getitem__: the stored count, 0 for a missing key
CounterGet(counter, w) == IF HasKey(counter, w) THEN counter[IndexOf(counter, w)][2] ELSE 0

\* a dict that stores a default on a miss, as a defaultdict does
CounterAfterGetInserting(counter, w) ==
    IF HasKey(counter, w) THEN counter ELSE Append(counter, << w, 0 >>)

\* the counter after reading counter[w]: a Counter stores nothing on a miss
CounterAfterGet(counter, w) == counter

\* a words argument is either None or a list
NoneArg == [none |-> TRUE, items |-> << >>]

ListArg(ws) == [none |-> FALSE, items |-> ws]

Increment(counter, w) ==
    IF HasKey(counter, w)
    THEN [counter EXCEPT ![IndexOf(counter, w)] = << w, @[2] + 1 >>]
    ELSE Append(counter, << w, 1 >>)

RECURSIVE CountElements(_, _)
CountElements(counter, ws) ==
    IF ws = << >> THEN counter
    ELSE CountElements(Increment(counter, Head(ws)), Tail(ws))

\* an update that assigns 1 instead of adding 1
RECURSIVE CountElementsOverwriting(_, _)
CountElementsOverwriting(counter, ws) ==
    IF ws = << >> THEN counter
    ELSE CountElementsOverwriting(
             IF HasKey(counter, Head(ws))
             THEN [counter EXCEPT ![IndexOf(counter, Head(ws))] = << Head(ws), 1 >>]
             ELSE Append(counter, << Head(ws), 1 >>),
             Tail(ws))

CounterUpdateOverwriting(counter, arg) ==
    IF arg.none THEN counter ELSE CountElementsOverwriting(counter, arg.items)

\* Counter.update(iterable): nothing to do for None, else count the elements
CounterUpdate(counter, arg) ==
    IF arg.none THEN counter ELSE CountElements(counter, arg.items)

\* WordCounter.add_words: the table after the call
AddWords(table, file_name, arg) ==
    LET t1 == IF HasKey(table, file_name) THEN table
              ELSE Append(table, << file_name, << >> >>)
        i  == IndexOf(t1, file_name)
    IN  [t1 EXCEPT ![i] = << file_name, CounterUpdate(t1[i][2], arg) >>]

\* WordCounter.add_words: how the call ends (no check of the argument is made,
\* and Counter.update accepts both a list and None)
AddWordsOutcome(arg) == "returned"

\* the loop without its `if count > 0`
RECURSIVE CountLoopNoZeroTest(_, _)
CountLoopNoZeroTest(items, word) ==
    IF items = << >> THEN << >>
    ELSE << << Head(items)[1], CounterGet(Head(items)[2], word) >> >>
         \o CountLoopNoZeroTest(Tail(items), word)

\* WordCounter.count_word_occurrences: the loop over the sources
RECURSIVE CountLoop(_, _)
CountLoop(items, word) ==
    IF items = << >> THEN << >>
    ELSE LET count == CounterGet(Head(items)[2], word)
         IN  (IF count > 0 THEN << << Head(items)[1], count >> >> ELSE << >>)
             \o CountLoop(Tail(items), word)

CountWordOccurrencesNoZeroTest(table, word) == CountLoopNoZeroTest(table, Lower(word))

\* WordCounter.count_word_occurrences: the dict returned
CountWordOccurrences(table, word) == CountLoop(table, Lower(word))

\* WordCounter.count_word_occurrences: the table after the call
TableAfterCount(table, word) ==
    [i \in 1..Len(table) |-> << table[i][1], CounterAfterGet(table[i][2], Lower(word)) >>]

-----------------------------------------------------------------------------
(* Inputs *)

Paths == {"f1", "f2", "f3"}

Texts == Strings(Chars, MaxTextLen)

\* words a direct caller of add_words passes
DirectWords == {<< "a" >>, << "A" >>, << "b" >>}

WordLists == Strings(DirectWords, MaxWords)

QueryWords == {<< >>, << "a" >>, << "A" >>, << "b" >>, << "a", "b" >>, << "1" >>}

NoCall == [op |-> "none", file_name |-> "", arg |-> NoneArg, word |-> << >>,
           min_length |-> 0, starts_with |-> << >>, no_prefix |-> TRUE,
           sort_by |-> "", outcome |-> ""]

NoArgs == [files |-> << >>, has_text |-> FALSE, text |-> << >>, has_word |-> FALSE,
           word |-> << >>, has_count |-> FALSE, count |-> << >>,
           has_filter |-> FALSE, min_length |-> << >>, starts_with |-> << >>,
           has_output |-> FALSE, sort |-> "", format |-> "text"]

NoFs == [p \in Paths |-> [error |-> "", text |-> << >>]]

finderVars == << kind, file_names, fs, idx, pc, errors >>

mainVars == << args, mpc, reported, events, saved >>

-----------------------------------------------------------------------------
(* TextProcessor used on its own *)

InitNormalizer ==
    /\ text_in \in Texts
    /\ words = << >> /\ call = NoCall /\ found = << >>
    /\ filtered = << >> /\ table_out = << >> /\ all_words = << >>
    /\ kind = "none" /\ file_names = << >> /\ fs = NoFs /\ idx = 1 /\ pc = "none"
    /\ errors = << >> /\ args = NoArgs /\ mpc = "none" /\ reported = "none"
    /\ events = {} /\ saved = << >>

ProcessTextCall ==
    /\ call.op = "none"
    /\ words' = ProcessText(text_in)
    /\ call' = [NoCall EXCEPT !.op = "_process_text", !.outcome = "returned"]
    /\ UNCHANGED << text_in, found, filtered, table_out, all_words >>
    /\ UNCHANGED finderVars
    /\ UNCHANGED mainVars

NextNormalizer == ProcessTextCall

SpecNormalizer == InitNormalizer /\ [][NextNormalizer]_vars

-----------------------------------------------------------------------------
(* WordCounter used on its own *)

RECURSIVE SumCounts(_)
SumCounts(counter) ==
    IF counter = << >> THEN 0 ELSE Head(counter)[2] + SumCounts(Tail(counter))

RECURSIVE TableTotal(_)
TableTotal(table) ==
    IF table = << >> THEN 0 ELSE SumCounts(Head(table)[2]) + TableTotal(Tail(table))

CounterSources == {"f1", "f2"}

InitCounter ==
    /\ text_in = << >> /\ words = << >> /\ call = NoCall /\ found = << >>
    /\ filtered = << >> /\ table_out = << >> /\ all_words = << >>
    /\ kind = "none" /\ file_names = << >> /\ fs = NoFs /\ idx = 1 /\ pc = "none"
    /\ errors = << >> /\ args = NoArgs /\ mpc = "none" /\ reported = "none"
    /\ events = {} /\ saved = << >>

AddWordsCall ==
    \E s \in CounterSources, ws \in WordLists :
        /\ TableTotal(all_words) + Len(ws) <= MaxCount
        /\ all_words' = AddWords(all_words, s, ListArg(ws))
        /\ call' = [NoCall EXCEPT !.op = "add_words", !.file_name = s,
                                  !.arg = ListArg(ws),
                                  !.outcome = AddWordsOutcome(ListArg(ws))]
        /\ UNCHANGED << text_in, words, found, filtered, table_out >>
        /\ UNCHANGED finderVars
        /\ UNCHANGED mainVars

AddWordsNoneCall ==
    \E s \in CounterSources :
        /\ all_words' = AddWords(all_words, s, NoneArg)
        /\ call' = [NoCall EXCEPT !.op = "add_words", !.file_name = s,
                                  !.arg = NoneArg,
                                  !.outcome = AddWordsOutcome(NoneArg)]
        /\ UNCHANGED << text_in, words, found, filtered, table_out >>
        /\ UNCHANGED finderVars
        /\ UNCHANGED mainVars

CountWordOccurrencesCall ==
    \E w \in QueryWords :
        /\ found' = CountWordOccurrences(all_words, w)
        /\ all_words' = TableAfterCount(all_words, w)
        /\ call' = [NoCall EXCEPT !.op = "count_word_occurrences", !.word = w,
                                  !.outcome = "returned"]
        /\ UNCHANGED << text_in, words, filtered, table_out >>
        /\ UNCHANGED finderVars
        /\ UNCHANGED mainVars

GetAllWordsCall ==
    /\ table_out' = all_words
    /\ call' = [NoCall EXCEPT !.op = "get_all_words", !.outcome = "returned"]
    /\ UNCHANGED << text_in, words, found, filtered, all_words >>
    /\ UNCHANGED finderVars
    /\ UNCHANGED mainVars

NextCounter ==
    \/ AddWordsCall
    \/ AddWordsNoneCall
    \/ CountWordOccurrencesCall
    \/ GetAllWordsCall

SpecCounter == InitCounter /\ [][NextCounter]_vars

-----------------------------------------------------------------------------
(* Properties of TextProcessor and WordCounter *)

HasAlpha(w) == \E i \in 1..Len(w) : w[i] \in Letters

HasUpper(w) == \E i \in 1..Len(w) : w[i] # LowerChar(w[i])

\* the count stored for word w under source s, 0 when there is none
StoredCount(table, s, w) ==
    LET rows == {i \in 1..Len(table) : table[i][1] = s}
    IN  IF rows = {} THEN 0
        ELSE LET counter == table[CHOOSE i \in rows : TRUE][2]
                 hits == {j \in 1..Len(counter) : counter[j][1] = w}
             IN  IF hits = {} THEN 0 ELSE counter[CHOOSE j \in hits : TRUE][2]

Occurrences(w, ws) == Cardinality({i \in 1..Len(ws) : ws[i] = w})

StoredWords(table) ==
    UNION {Keys(table[i][2]) : i \in 1..Len(table)}

AllCountsPositive(table) ==
    \A i \in 1..Len(table) : \A j \in 1..Len(table[i][2]) : table[i][2][j][2] >= 1

\* C1: every token _process_text returns contains at least one alphabetic
\* character; purely numeric tokens are discarded.
C1_OnlyAlphabeticTokens ==
    call.op = "_process_text" => \A i \in 1..Len(words) : HasAlpha(words[i])

\* C2: add_words lowercases every word before counting it, so after a call no
\* key of the table holds an uppercase letter.
C2_AddWordsLowercases ==
    (call.op = "add_words" /\ ~call.arg.none) =>
        \A w \in StoredWords(all_words) : ~HasUpper(w)

\* C3: add_words called with None in place of the words ends in an error
\* (TypeError) and never completes normally.
C3_NoneRaises ==
    (call.op = "add_words" /\ call.arg.none) => call.outcome = "TypeError"

\* C5: count_word_occurrences(w) returns a mapping whose keys are exactly the
\* sources whose count of lowercase(w) is greater than 0, each mapped to that
\* count; no source appears with value 0.
C5_CountOccurrencesExact ==
    call.op = "count_word_occurrences" =>
        LET w == Lower(call.word)
        IN  /\ Keys(found) = {s \in Keys(all_words) : StoredCount(all_words, s, w) > 0}
            /\ Cardinality(Keys(found)) = Len(found)
            /\ \A k \in 1..Len(found) :
                   /\ found[k][2] = StoredCount(all_words, found[k][1], w)
                   /\ found[k][2] > 0

C5_Witness ==
    /\ call.op = "count_word_occurrences"
    /\ call.word = << "A" >>
    /\ Len(all_words) = 2
    /\ found = << << "f2", 2 >> >>

\* C6: each add_words(s, ws) raises the count of every word w of source s by
\* the number of times w occurs in ws, leaves every other count unchanged, and
\* every stored count is at least 1.
C6_CountsAccumulate ==
    [][ (call'.op = "add_words" /\ ~call'.arg.none) =>
            /\ \A s \in CounterSources :
                   \A w \in StoredWords(all_words) \cup StoredWords(all_words') \cup DirectWords :
                       StoredCount(all_words', s, w) =
                           StoredCount(all_words, s, w)
                           + (IF s = call'.file_name
                              THEN Occurrences(w, call'.arg.items) ELSE 0)
            /\ AllCountsPositive(all_words') ]_vars

C6_Witness ==
    /\ call.op = "add_words"
    /\ call.file_name = "f1"
    /\ call.arg = ListArg(<< << "a" >> >>)
    /\ StoredCount(all_words, "f1", << "a" >>) = 3

-----------------------------------------------------------------------------
(* FileWordsFinder and InMemoryWordsFinder *)

\* contents of the files that can be read
FileTexts == { << >>,
               << "a", "b" >>,
               << "A", ",", " ", "a" >>,
               << "b", " ", "1" >> }

ReadErrors == {"FileNotFoundError", "UnicodeDecodeError", "OSError"}

FileOutcomes ==
    {[error |-> e, text |-> << >>] : e \in ReadErrors}
    \cup {[error |-> "", text |-> t] : t \in FileTexts}

Missing == [error |-> "FileNotFoundError", text |-> << >>]

Named(names) == {names[i] : i \in 1..Len(names)}

FinderQueryWords == {<< >>, << "A" >>, << "b" >>}

MinLengths == {0, 2}

Prefixes == {<< "a" >>, << "A" >>}

SortKeys == {"frequency", "alphabetical", "other"}

Formats == {"text", "json"}

\* the sentinel source of InMemoryWordsFinder
InMemory == "in_memory_text"

\* the sources in ascending string order
SourceOrder == << "f1", "f2", "f3", "in_memory_text" >>

Rank(s) == CHOOSE i \in 1..Len(SourceOrder) : SourceOrder[i] = s

\* FileWordsFinder.get_all_words: the message each except clause logs (the
\* source's messages are in Russian; the generic clause logs str(e))
ErrorMessage(error) ==
    CASE error = "FileNotFoundError" -> "file not found"
      [] error = "UnicodeDecodeError" -> "decoding error"
      [] OTHER -> error

\* a handler that gives up on the remaining files
AfterErrorAbort(i, n) == n + 1

\* FileWordsFinder.get_all_words: where the loop goes after an except clause
AfterError(i, n) == i + 1

\* the test with > in place of >=
KeepsWordStrict(w, min_length, no_prefix, starts_with) ==
    Len(w) > min_length /\ (no_prefix \/ StartsWith(w, starts_with))

\* the test of the list comprehension of filter_words
KeepsWord(w, min_length, no_prefix, starts_with) ==
    Len(w) >= min_length /\ (no_prefix \/ StartsWith(w, starts_with))

\* the list comprehension of filter_words over one Counter
FilterCounter(counter, min_length, no_prefix, starts_with) ==
    LET Keeps(e) == KeepsWord(e[1], min_length, no_prefix, starts_with)
        kept == SelectSeq(counter, Keeps)
    IN  [i \in 1..Len(kept) |-> kept[i][1]]

\* FileWordsFinder.filter_words
FileFilterWords(table, min_length, no_prefix, starts_with) ==
    [i \in 1..Len(table) |->
        << table[i][1], FilterCounter(table[i][2], min_length, no_prefix, starts_with) >>]

\* InMemoryWordsFinder.filter_words
MemoryFilterWords(table, min_length, no_prefix, starts_with) ==
    LET counter == IF HasKey(table, InMemory) THEN table[IndexOf(table, InMemory)][2]
                   ELSE << >>
    IN  << << InMemory, FilterCounter(counter, min_length, no_prefix, starts_with) >> >>

\* sorted(items, key = sum of the counts, reverse = True): a stable sort, equal
\* keys keep their order
InsertDescending(sorted, item) ==
    LET n == Cardinality({i \in 1..Len(sorted) :
                              SumCounts(sorted[i][2]) >= SumCounts(item[2])})
    IN  SubSeq(sorted, 1, n) \o << item >> \o SubSeq(sorted, n + 1, Len(sorted))

RECURSIVE SortDescending(_, _)
SortDescending(sorted, items) ==
    IF items = << >> THEN sorted
    ELSE SortDescending(InsertDescending(sorted, Head(items)), Tail(items))

InsertAscending(sorted, item) ==
    LET n == Cardinality({i \in 1..Len(sorted) :
                              SumCounts(sorted[i][2]) <= SumCounts(item[2])})
    IN  SubSeq(sorted, 1, n) \o << item >> \o SubSeq(sorted, n + 1, Len(sorted))

RECURSIVE SortAscending(_, _)
SortAscending(sorted, items) ==
    IF items = << >> THEN sorted
    ELSE SortAscending(InsertAscending(sorted, Head(items)), Tail(items))

Reverse(s) == [i \in 1..Len(s) |-> s[Len(s) + 1 - i]]

\* an ascending sort read backwards: descending, but ties come out reversed
SortByFrequencyReversed(table) == Reverse(SortAscending(<< >>, table))

\* sort_results, sort_by = 'frequency'
SortByFrequency(table) == SortDescending(<< >>, table)

\* sorted(items): ascending by key (the keys of a dict are distinct)
InsertByName(sorted, item) ==
    LET n == Cardinality({i \in 1..Len(sorted) : Rank(sorted[i][1]) <= Rank(item[1])})
    IN  SubSeq(sorted, 1, n) \o << item >> \o SubSeq(sorted, n + 1, Len(sorted))

RECURSIVE SortByName(_, _)
SortByName(sorted, items) ==
    IF items = << >> THEN sorted
    ELSE SortByName(InsertByName(sorted, Head(items)), Tail(items))

\* FileWordsFinder.sort_results / InMemoryWordsFinder.sort_results
SortResults(table, sort_by) ==
    IF sort_by = "frequency" THEN SortByFrequency(table)
    ELSE IF sort_by = "alphabetical" THEN SortByName(<< >>, table)
    ELSE table

\* save_results: what is written, the table's entries in their order
Written(table, format) == << format, table >>

InitFinder ==
    /\ \/ /\ kind = "file"
          /\ file_names \in Strings(Paths, MaxFiles)
          /\ fs \in [Paths -> FileOutcomes]
          /\ \A p \in Paths \ Named(file_names) : fs[p] = Missing
          /\ text_in = << >>
       \/ /\ kind = "memory"
          /\ file_names = << >>
          /\ fs = NoFs
          /\ text_in \in FileTexts
    /\ pc = "construct" /\ idx = 1 /\ errors = << >>
    /\ words = << >> /\ call = NoCall /\ found = << >>
    /\ filtered = << >> /\ table_out = << >> /\ all_words = << >>
    /\ args = NoArgs /\ mpc = "none" /\ reported = "none"
    /\ events = {} /\ saved = << >>

\* one pass of the loop of get_all_words over a file that is read
ReadFile ==
    /\ kind = "file" /\ pc = "construct" /\ idx <= Len(file_names)
    /\ fs[file_names[idx]].error = ""
    /\ words' = ProcessText(fs[file_names[idx]].text)
    /\ all_words' = AddWords(all_words, file_names[idx], ListArg(words'))
    /\ idx' = idx + 1
    /\ events' = events \cup {"read", "normalize", "aggregate"}
    /\ UNCHANGED << text_in, call, found, filtered, table_out, kind, file_names, fs,
                    pc, errors, args, mpc, reported, saved >>

\* one pass of the loop over a file whose open or read raises `error`
HandleError(error) ==
    /\ kind = "file" /\ pc = "construct" /\ idx <= Len(file_names)
    /\ fs[file_names[idx]].error = error
    /\ errors' = Append(errors, << file_names[idx], ErrorMessage(error) >>)
    /\ idx' = AfterError(idx, Len(file_names))
    /\ events' = events \cup {"read"}
    /\ UNCHANGED << text_in, words, call, found, filtered, table_out, all_words, kind,
                    file_names, fs, pc, args, mpc, reported, saved >>

FileNotFound == HandleError("FileNotFoundError")

DecodeError == HandleError("UnicodeDecodeError")

OtherError == HandleError("OSError")

\* FileWordsFinder.__init__ returns
FileFinderBuilt ==
    /\ kind = "file" /\ pc = "construct" /\ idx > Len(file_names)
    /\ pc' = "ready"
    /\ call' = [NoCall EXCEPT !.op = "__init__", !.outcome = "returned"]
    /\ UNCHANGED << text_in, words, found, filtered, table_out, all_words, kind,
                    file_names, fs, idx, errors, args, mpc, reported, events, saved >>

\* InMemoryWordsFinder.__init__ with process_text
MemoryFinderBuilt ==
    /\ kind = "memory" /\ pc = "construct"
    /\ words' = ProcessText(text_in)
    /\ all_words' = AddWords(all_words, InMemory, ListArg(words'))
    /\ pc' = "ready"
    /\ call' = [NoCall EXCEPT !.op = "__init__", !.outcome = "returned"]
    /\ events' = events \cup {"normalize", "aggregate"}
    /\ UNCHANGED << text_in, found, filtered, table_out, kind, file_names, fs, idx,
                    errors, args, mpc, reported, saved >>

\* the effect of finder.find(w) and finder.count_word_occurrences(w)
Lookup(op, w) ==
    /\ found' = CountWordOccurrences(all_words, w)
    /\ all_words' = TableAfterCount(all_words, w)
    /\ call' = [NoCall EXCEPT !.op = op, !.word = w, !.outcome = "returned"]
    /\ filtered' = << >> /\ table_out' = << >> /\ saved' = << >>

\* the effect of finder.filter_words(min_length, starts_with)
Filter(min_length, no_prefix, starts_with) ==
    /\ filtered' = IF kind = "file"
                   THEN FileFilterWords(all_words, min_length, no_prefix, starts_with)
                   ELSE MemoryFilterWords(all_words, min_length, no_prefix, starts_with)
    /\ call' = [NoCall EXCEPT !.op = "filter_words", !.min_length = min_length,
                              !.no_prefix = no_prefix, !.starts_with = starts_with,
                              !.outcome = "returned"]
    /\ found' = << >> /\ table_out' = << >> /\ saved' = << >>
    /\ UNCHANGED all_words

Find ==
    /\ pc = "ready" /\ mpc = "none"
    /\ \E w \in FinderQueryWords : Lookup("find", w)
    /\ UNCHANGED << text_in, words, kind, file_names, fs, idx, pc, errors, args, mpc,
                    reported, events >>

FinderCountWordOccurrences ==
    /\ pc = "ready" /\ mpc = "none"
    /\ \E w \in FinderQueryWords : Lookup("count_word_occurrences", w)
    /\ UNCHANGED << text_in, words, kind, file_names, fs, idx, pc, errors, args, mpc,
                    reported, events >>

CountAllWords ==
    /\ pc = "ready" /\ mpc = "none"
    /\ table_out' = all_words
    /\ call' = [NoCall EXCEPT !.op = "count_all_words", !.outcome = "returned"]
    /\ found' = << >> /\ filtered' = << >> /\ saved' = << >>
    /\ UNCHANGED << text_in, words, all_words, kind, file_names, fs, idx, pc, errors,
                    args, mpc, reported, events >>

FilterWords ==
    /\ pc = "ready" /\ mpc = "none"
    /\ \/ \E m \in MinLengths : Filter(m, TRUE, << >>)
       \/ \E m \in MinLengths, p \in Prefixes : Filter(m, FALSE, p)
    /\ UNCHANGED << text_in, words, kind, file_names, fs, idx, pc, errors, args, mpc,
                    reported, events >>

\* finder.sort_results(finder.count_all_words(), sort_by)
SortResultsCall ==
    /\ pc = "ready" /\ mpc = "none"
    /\ \E k \in SortKeys :
          /\ table_out' = SortResults(all_words, k)
          /\ call' = [NoCall EXCEPT !.op = "sort_results", !.sort_by = k,
                                    !.outcome = "returned"]
    /\ found' = << >> /\ filtered' = << >> /\ saved' = << >>
    /\ UNCHANGED << text_in, words, all_words, kind, file_names, fs, idx, pc, errors,
                    args, mpc, reported, events >>

\* finder.save_results(finder.count_all_words(), output_file, format)
SaveResults ==
    /\ pc = "ready" /\ mpc = "none"
    /\ \E f \in Formats :
          /\ saved' = Written(all_words, f)
          /\ call' = [NoCall EXCEPT !.op = "save_results", !.outcome = "returned"]
    /\ found' = << >> /\ filtered' = << >> /\ table_out' = << >>
    /\ UNCHANGED << text_in, words, all_words, kind, file_names, fs, idx, pc, errors,
                    args, mpc, reported, events >>

Construct ==
    \/ ReadFile
    \/ FileNotFound
    \/ DecodeError
    \/ OtherError
    \/ FileFinderBuilt
    \/ MemoryFinderBuilt

NextFinder ==
    \/ Construct
    \/ Find
    \/ FinderCountWordOccurrences
    \/ CountAllWords
    \/ FilterWords
    \/ SortResultsCall
    \/ SaveResults

SpecFinder == InitFinder /\ [][NextFinder]_vars

-----------------------------------------------------------------------------
(* Properties of the finders *)

Multiplicity(p, names) == Cardinality({i \in 1..Len(names) : names[i] = p})

Readable(p) == fs[p].error = ""

\* the positions of file_names that failed, in order, as handle_error saw them
RECURSIVE FailedNames(_)
FailedNames(names) ==
    IF names = << >> THEN << >>
    ELSE (IF Readable(Head(names)) THEN << >> ELSE << Head(names) >>)
         \o FailedNames(Tail(names))

\* construction ran over every file: each failure was logged, in order
EveryFileVisited ==
    /\ idx = Len(file_names) + 1
    /\ [i \in 1..Len(errors) |-> errors[i][1]] = FailedNames(file_names)

\* C4 as stated: construction of a FileWordsFinder completes, files after a
\* failed one are processed, each readable file's entry equals the word counts
\* of its own normalized content, and a failed file has no entry.
C4_FileErrorIsolation ==
    (kind = "file" /\ pc = "ready") =>
        /\ EveryFileVisited
        /\ \A p \in Named(file_names) :
               IF Readable(p)
               THEN /\ HasKey(all_words, p)
                    /\ \A w \in StoredWords(all_words) \cup Named(ProcessText(fs[p].text)) :
                           StoredCount(all_words, p, w)
                               = Occurrences(w, ProcessText(fs[p].text))
               ELSE ~HasKey(all_words, p)

\* C4 amended: as C4, but a readable path's entry holds the word counts of its
\* normalized content once for every time the path occurs in the list.
C4_FileErrorIsolationPerOccurrence ==
    (kind = "file" /\ pc = "ready") =>
        /\ EveryFileVisited
        /\ Keys(all_words) = {p \in Named(file_names) : Readable(p)}
        /\ \A p \in Named(file_names) :
               Readable(p) =>
                   \A w \in StoredWords(all_words) \cup Named(ProcessText(fs[p].text)) :
                       StoredCount(all_words, p, w)
                           = Multiplicity(p, file_names)
                             * Occurrences(w, ProcessText(fs[p].text))

C4_Witness ==
    /\ kind = "file" /\ pc = "ready"
    /\ Len(file_names) = 3
    /\ ~Readable(file_names[1]) /\ Readable(file_names[2])
    /\ ~Readable(file_names[3])
    /\ fs[file_names[1]].error # fs[file_names[3]].error
    /\ Len(all_words) = 1 /\ all_words[1][2] # << >>
    /\ Len(errors) = 2

\* C7: filter_words returns, for each source of the table, exactly the
\* distinct words w of the source with len(w) >= min_length that begin with
\* starts_with when one is given, each listed once.
C7_FilterWordsExact ==
    call.op = "filter_words" =>
        /\ Len(filtered) = Len(all_words)
        /\ Keys(filtered) = Keys(all_words)
        /\ \A i \in 1..Len(filtered) :
               LET s == filtered[i][1]
                   listed == filtered[i][2]
                   counter == all_words[CHOOSE j \in 1..Len(all_words) : all_words[j][1] = s][2]
               IN  /\ Named(listed) =
                          {w \in Keys(counter) :
                               /\ Len(w) >= call.min_length
                               /\ call.no_prefix \/
                                      (/\ Len(call.starts_with) <= Len(w)
                                       /\ \A k \in 1..Len(call.starts_with) :
                                              w[k] = call.starts_with[k])}
                   /\ Cardinality(Named(listed)) = Len(listed)

C7_Witness ==
    /\ call.op = "filter_words"
    /\ call.min_length = 2 /\ ~call.no_prefix /\ call.starts_with = << "a" >>
    /\ Len(filtered) = 2
    /\ filtered[1][2] = << << "a", "b" >> >>
    /\ filtered[2][2] = << >>
    /\ all_words[2][2] # << >>

\* C8: sort_results(table, "frequency") returns the same source entries, in
\* descending order of the sum of their counts, sources with equal sums in the
\* order they had in the table.
C8_FrequencySortStable ==
    (call.op = "sort_results" /\ call.sort_by = "frequency") =>
        LET Position(s) == CHOOSE i \in 1..Len(all_words) : all_words[i][1] = s
        IN  /\ Len(table_out) = Len(all_words)
            /\ Named(table_out) = Named(all_words)
            /\ \A j, k \in 1..Len(table_out) :
                   j < k =>
                       /\ SumCounts(table_out[j][2]) >= SumCounts(table_out[k][2])
                       /\ SumCounts(table_out[j][2]) = SumCounts(table_out[k][2])
                              => Position(table_out[j][1]) < Position(table_out[k][1])

C8_Witness ==
    /\ call.op = "sort_results" /\ call.sort_by = "frequency"
    /\ Len(all_words) = 3
    /\ table_out # all_words
    /\ SumCounts(table_out[1][2]) = SumCounts(table_out[2][2])
    /\ SumCounts(table_out[2][2]) > SumCounts(table_out[3][2])

\* C9: once construction has finished, no call of find, count_word_occurrences,
\* count_all_words, filter_words, sort_results or save_results changes the
\* table: its sources, their order, the words of each source and every count.
C9_TableFixedAfterConstruction ==
    [][pc = "ready" => all_words' = all_words]_vars

C9_Witness ==
    /\ pc = "ready"
    /\ call.op = "find" /\ call.word = << "b" >>
    /\ found = << >>
    /\ Len(all_words) = 2
    /\ all_words[1][2] # << >> /\ all_words[2][2] # << >>

-----------------------------------------------------------------------------
(* main *)

Digits == {"0", "1", "2", "3", "4", "5", "6", "7", "8", "9"}

DigitValue(c) ==
    CASE c = "0" -> 0 [] c = "1" -> 1 [] c = "2" -> 2 [] c = "3" -> 3 [] c = "4" -> 4
      [] c = "5" -> 5 [] c = "6" -> 6 [] c = "7" -> 7 [] c = "8" -> 8 [] c = "9" -> 9

AllDigits(s) == s # << >> /\ \A i \in 1..Len(s) : s[i] \in Digits

\* whether int(s) returns rather than raising ValueError
IsIntLiteral(s) ==
    IF s # << >> /\ Head(s) \in {"-", "+"} THEN AllDigits(Tail(s)) ELSE AllDigits(s)

RECURSIVE DigitsValue(_, _)
DigitsValue(s, acc) ==
    IF s = << >> THEN acc ELSE DigitsValue(Tail(s), 10 * acc + DigitValue(Head(s)))

\* int(s), for an s that int accepts
ParseInt(s) ==
    IF Head(s) = "-" THEN 0 - DigitsValue(Tail(s), 0)
    ELSE IF Head(s) = "+" THEN DigitsValue(Tail(s), 0)
    ELSE DigitsValue(s, 0)

\* the truth value of an optional string argument: None and "" are false
Truthy(given, s) == given /\ s # << >>

\* a test that looks at the files alone
MissingInputFilesOnly(a) == a.files = << >>

\* the test `not args.files and not args.text`
MissingInput(a) == a.files = << >> /\ ~Truthy(a.has_text, a.text)

MainFileLists == {<< >>, << "f1" >>, << "f2", "f1" >>}

MainTexts == {<< >>, << "a", " ", "b" >>}

MinLengthArgs == {<< "2" >>, << "x" >>, << "-", "1" >>}

MainArgs ==
    {[files |-> fl, has_text |-> ht, text |-> tx, has_word |-> hw, word |-> << "A" >>,
      has_count |-> hc, count |-> << "b" >>,
      has_filter |-> hf, min_length |-> ml, starts_with |-> << "a" >>,
      has_output |-> ho, sort |-> so, format |-> fm] :
        fl \in MainFileLists, ht \in BOOLEAN, tx \in MainTexts, hw \in BOOLEAN,
        hc \in BOOLEAN, hf \in BOOLEAN, ml \in MinLengthArgs, ho \in BOOLEAN,
        so \in {"", "frequency"}, fm \in Formats}

InitMain ==
    /\ args \in {a \in MainArgs :
                     /\ ~a.has_text => a.text = << >>
                     /\ ~a.has_filter => a.min_length = << "2" >>
                     /\ ~a.has_output => (a.sort = "" /\ a.format = "text")}
    /\ fs \in [Paths -> FileOutcomes]
    /\ \A p \in Paths \ Named(args.files) : fs[p] = Missing
    /\ mpc = "start" /\ reported = "none" /\ events = {} /\ saved = << >>
    /\ kind = "none" /\ file_names = << >> /\ idx = 1 /\ pc = "none" /\ errors = << >>
    /\ text_in = << >> /\ words = << >> /\ call = NoCall /\ found = << >>
    /\ filtered = << >> /\ table_out = << >> /\ all_words = << >>

\* parser.error(...): the message is printed and the process exits
UsageErrorNoInput ==
    /\ mpc = "start"
    /\ MissingInput(args)
    /\ reported' = "no_input"
    /\ mpc' = "exit"
    /\ UNCHANGED << text_in, words, call, found, filtered, table_out, all_words, kind,
                    file_names, fs, idx, pc, errors, args, events, saved >>

\* the finder's constructor is entered: FileWordsFinder if files were given,
\* else InMemoryWordsFinder
StartFinder ==
    /\ mpc = "start"
    /\ ~MissingInput(args)
    /\ args.files # << >> \/ Truthy(args.has_text, args.text)
    /\ IF args.files # << >>
       THEN kind' = "file" /\ file_names' = args.files /\ text_in' = << >>
       ELSE kind' = "memory" /\ file_names' = << >> /\ text_in' = args.text
    /\ pc' = "construct"
    /\ mpc' = "word"
    /\ UNCHANGED << words, call, found, filtered, table_out, all_words, fs, idx,
                    errors, args, reported, events, saved >>

\* if args.word: finder.find(args.word)
MainWord ==
    /\ mpc = "word" /\ pc = "ready"
    /\ IF Truthy(args.has_word, args.word)
       THEN Lookup("find", args.word)
       ELSE UNCHANGED << found, all_words, call, filtered, table_out, saved >>
    /\ mpc' = "count"
    /\ UNCHANGED << text_in, words, kind, file_names, fs, idx, pc, errors, args,
                    reported, events >>

\* if args.count: finder.count_word_occurrences(args.count)
MainCount ==
    /\ mpc = "count" /\ pc = "ready"
    /\ IF Truthy(args.has_count, args.count)
       THEN Lookup("count_word_occurrences", args.count)
       ELSE UNCHANGED << found, all_words, call, filtered, table_out, saved >>
    /\ mpc' = "filter"
    /\ UNCHANGED << text_in, words, kind, file_names, fs, idx, pc, errors, args,
                    reported, events >>

\* if args.filter: int(MIN_LENGTH), then finder.filter_words, or the message
\* of the ValueError handler
MainFilter ==
    /\ mpc = "filter" /\ pc = "ready"
    /\ IF ~args.has_filter
       THEN UNCHANGED << found, all_words, call, filtered, table_out, saved, reported >>
       ELSE IF IsIntLiteral(args.min_length)
       THEN /\ Filter(ParseInt(args.min_length), FALSE, args.starts_with)
            /\ UNCHANGED reported
       ELSE /\ reported' = "bad_min_length"
            /\ UNCHANGED << found, all_words, call, filtered, table_out, saved >>
    /\ mpc' = "output"
    /\ UNCHANGED << text_in, words, kind, file_names, fs, idx, pc, errors, args, events >>

\* if args.output: count_all_words, sort_results if asked, save_results
MainOutput ==
    /\ mpc = "output" /\ pc = "ready"
    /\ IF args.has_output
       THEN /\ table_out' = IF args.sort # "" THEN SortResults(all_words, args.sort)
                            ELSE all_words
            /\ saved' = Written(table_out', args.format)
            /\ call' = [NoCall EXCEPT !.op = "save_results", !.outcome = "returned"]
       ELSE UNCHANGED << table_out, saved, call >>
    /\ mpc' = "done"
    /\ UNCHANGED << text_in, words, found, filtered, all_words, kind, file_names, fs,
                    idx, pc, errors, args, reported, events >>

NextMain ==
    \/ UsageErrorNoInput
    \/ StartFinder
    \/ Construct
    \/ MainWord
    \/ MainCount
    \/ MainFilter
    \/ MainOutput

SpecMain == InitMain /\ [][NextMain]_vars

\* C10 as stated: in a run that reports a usage error (no input given, or a
\* minimum length that is not an integer) no source has been read, normalized
\* or aggregated.
C10_UsageErrorBeforeProcessing ==
    reported # "none" => events = {}

\* C10 amended: a run given neither files nor a non-empty text is rejected
\* before any source is read, normalized or aggregated; a minimum length that
\* is not an integer is reported only once the finder has been constructed over
\* every source, and the run goes on.
C10_UsageErrorOrder ==
    LET no_input == args.files = << >> /\ (~args.has_text \/ args.text = << >>)
    IN  /\ (no_input /\ mpc # "start") =>
               (reported = "no_input" /\ mpc = "exit" /\ pc = "none" /\ events = {})
        /\ reported = "no_input" => (no_input /\ events = {} /\ all_words = << >>)
        /\ reported = "bad_min_length" =>
               /\ args.has_filter /\ ~IsIntLiteral(args.min_length)
               /\ pc = "ready" /\ mpc \in {"output", "done"}
               /\ events # {}
               /\ kind = "file" => idx = Len(file_names) + 1
        /\ (mpc = "done" /\ args.has_output) => saved # << >>

C10_Witness ==
    /\ reported = "bad_min_length"
    /\ mpc = "done"
    /\ events = {"read", "normalize", "aggregate"}
    /\ Len(all_words) = 2
    /\ saved # << >>

====
